---- MODULE Spec2Model ----
(***************************************************************************)
(* private-journal-mcp: the entry store (src/src/journal.ts), the          *)
(* retrieval index (src/src/search.ts) and the location resolver           *)
(* (src/src/paths.ts) as a state machine over the storage tree.            *)
(*                                                                         *)
(* A JS string is a non-empty sequence of lines (the string split at       *)
(* "\n"); a line is a record naming what the line is.  An instant (a JS    *)
(* Date in local time) is a record [day, sec, ms].  Every await of the     *)
(* code is the end of one action, except where noted.                      *)
(***************************************************************************)
EXTENDS Integers, Sequences, FiniteSets, TLC

\* ------------------------------------------------------------------ bounds
MaxDay == 1        \* calendar days 0..MaxDay
MaxSec == 0        \* seconds of a day 0..MaxSec
MaxMs == 1         \* milliseconds of a second 0..MaxMs
MaxRand == 1       \* Math.floor(Math.random() * 1000) ranges over 0..MaxRand
MaxWrites == 2     \* write calls of one behaviour, all of which may overlap
MaxRuns == 2       \* generateMissingEmbeddings runs of one behaviour
MaxServerFiles == 2 \* files of the store a server process is started on
MaxText == 5       \* characters of a text an excerpt is taken from
MaxQuery == 5      \* characters of the query of an excerpt
ExcerptLength == 3 \* maxLength of generateExcerpt (200 in the code)
ExcerptStep == 2   \* the step of its windows (20 in the code)

VARIABLES
  cwd,       \* process.cwd(), fixed for the life of the process
  dirs,      \* the day directories that exist under the entries path
  files,     \* the files of the day directories: path -> content
  calls,     \* the writeEntry / writeThoughts calls: id -> locals and position
  bf,        \* the generateMissingEmbeddings call: locals and position
  sinceRun,  \* history: what happened since the last backfill run returned
  sr,        \* the call of the retrieval service (search, listRecent, readEntry)
             \* or of the server tool that makes it: arguments and what it returned
  dp         \* the detectProjectName call: argument and what it returned

vars == <<cwd, dirs, files, calls, bf, sinceRun, sr, dp>>

\* ------------------------------------------------------------------ values
Instants == [day : 0..MaxDay, sec : 0..MaxSec, ms : 0..MaxMs]
Randoms == 0..MaxRand

\* Date.getTime(): epoch milliseconds of an instant
GetTime(t) == (t.day * (MaxSec + 1) + t.sec) * (MaxMs + 1) + t.ms

\* the lines of an entry file
Delim == [k |-> "delim"]                                  \* ---
TitleLine(t) == [k |-> "title", day |-> t.day, sec |-> t.sec]
DateLine(t) == [k |-> "date", t |-> t]
TimestampLine(t) == [k |-> "timestamp", ms |-> GetTime(t)]
ProjectLine(p) == [k |-> "project", name |-> p]
Heading(n) == [k |-> "heading", name |-> n]               \* ## n
Txt(s) == [k |-> "txt", s |-> s]                          \* any other line

\* a name (of a section, of a filter) is the sequence of its characters
UserName == <<"U", "s", "e", "r">>
ProjectName == <<"P", "r", "o", "j", "e", "c", "t">>
ReflectionsName == <<"R", "e", "f", "l", "e", "c", "t", "i", "o", "n", "s">>

EmptyString == <<Txt("")>>
Undefined == << >>
\* JS truthiness of an optional string
Truthy(s) == s # Undefined /\ s # EmptyString
\* a line of text that String.trim() removes entirely
IsBlank(s) == s \in {"", " "}

\* the text of a line as it stands in the file
Render(l) ==
  CASE l.k = "txt" -> l.s
    [] l.k = "delim" -> "---"
    [] l.k = "heading" -> "## "
    [] OTHER -> l.k

\* ------------------------------------------------------------------ paths.ts
\* a directory path is the sequence of its segments; << >> is "/"
Home == <<"home">>
RootPath == << >>
TmpPath == <<"tmp">>
\* the working directories of the process: the home directory, and a
\* directory inside a repository
WorkingPaths == {Home, <<"w", "alpha">>}

\* SAFE_PATH_REGEX: every character is alphanumeric, / _ - . or whitespace.
\* A segment stands for its characters; the segment "" is the empty one,
\* so <<"">> is "//".
SafeSegments == {"home", "tmp", "w", "alpha", "src", "x y", ""}
UnsafeSegments == {"a;b"}

\* the allow-list not applied
IsValidPathAlways(dirPath) == TRUE

IsValidPath(dirPath) ==
  \A i \in 1..Len(dirPath) : dirPath[i] \in SafeSegments

\* what `git rev-parse --show-toplevel` answers in dirPath in the file
\* system of the journal's process: the repository root, or exit status
\* 128 outside a repository
GitRevParse(dirPath) ==
  IF Len(dirPath) >= 2 /\ SubSeq(dirPath, 1, 2) = <<"w", "alpha">>
    THEN [status |-> 0, root |-> <<"w", "alpha">>]
    ELSE [status |-> 128, root |-> << >>]

\* what execSync may do in dirPath on any machine: the answer above, the
\* answer when "/" itself is a repository, a timeout or a failed spawn (no
\* exit status, -1 here), or another exit status
GitOutcomes(dirPath) ==
  {GitRevParse(dirPath), [status |-> 0, root |-> << >>], [status |-> 128, root |-> << >>],
   [status |-> -1, root |-> << >>], [status |-> 1, root |-> << >>]}

Basename(p) == IF Len(p) = 0 THEN "" ELSE p[Len(p)]
\* the fallback left as it is
AsIs(s) == s
\* s || 'general'
OrGeneral(s) == IF s = "" THEN "general" ELSE s

\* detectProjectName reaches execSync
Spawns(dirPath) ==
  /\ ~(dirPath = Home \/ dirPath = RootPath \/ dirPath = TmpPath)
  /\ IsValidPath(dirPath)

\* detectProjectName, given what execSync does when it is reached
DetectProjectNameWith(dirPath, git) ==
  IF dirPath = Home \/ dirPath = RootPath \/ dirPath = TmpPath
    THEN "general"
    ELSE IF ~IsValidPath(dirPath)
      THEN OrGeneral(Basename(dirPath))
      ELSE IF git.status = 0
        THEN Basename(git.root)
        ELSE OrGeneral(Basename(dirPath))

DetectProjectName(dirPath) == DetectProjectNameWith(dirPath, GitRevParse(dirPath))

\* the paths detectProjectName is called with
DetectPaths ==
  LET segments == (SafeSegments \cup UnsafeSegments) \ {""}
  IN {RootPath, <<"">>} \cup {<<a>> : a \in segments}
       \cup {<<a, b>> : a \in segments, b \in segments}

NoGit == [status |-> 128, root |-> << >>]

\* detectProjectName up to execSync: the paths it answers at once, and the
\* start of the subprocess for the others
DetectStart ==
  /\ dp.pc = "idle"
  /\ \E dirPath \in DetectPaths :
       dp' = IF Spawns(dirPath)
               THEN [pc |-> "git", dirPath |-> dirPath, spawned |-> TRUE, git |-> NoGit,
                     ret |-> ""]
               ELSE [pc |-> "done", dirPath |-> dirPath, spawned |-> FALSE, git |-> NoGit,
                     ret |-> DetectProjectNameWith(dirPath, NoGit)]
  /\ UNCHANGED <<cwd, dirs, files, calls, bf, sinceRun, sr>>

\* execSync returns or throws, and detectProjectName returns
DetectExit ==
  /\ dp.pc = "git"
  /\ \E git \in GitOutcomes(dp.dirPath) :
       dp' = [dp EXCEPT !.pc = "done", !.git = git,
                        !.ret = DetectProjectNameWith(dp.dirPath, git)]
  /\ UNCHANGED <<cwd, dirs, files, calls, bf, sinceRun, sr>>

\* ------------------------------------------------------------------ embeddings.ts
\* the body of an entry: what follows the metadata block, when there is one
StripFrontmatter(lines) ==
  IF Len(lines) >= 2 /\ lines[1] = Delim /\ \E j \in 2..Len(lines) : lines[j] = Delim
    THEN LET j == CHOOSE j \in 2..Len(lines) :
                    lines[j] = Delim /\ \A i \in 2..(j - 1) : lines[i] # Delim
         IN SubSeq(lines, j + 1, Len(lines))
    ELSE lines

RECURSIVE SectionNames(_)
SectionNames(body) ==
  IF body = << >> THEN << >>
  ELSE LET rest == SectionNames(Tail(body))
       IN IF Head(body).k = "heading" THEN <<Head(body).name>> \o rest ELSE rest

RECURSIVE BodyText(_)
BodyText(body) ==
  IF body = << >> THEN << >>
  ELSE LET rest == BodyText(Tail(body))
       IN IF Head(body).k = "heading" THEN rest ELSE <<Render(Head(body))>> \o rest

ExtractSearchableText(content) ==
  LET body == StripFrontmatter(content)
  IN [text |-> BodyText(body), sections |-> SectionNames(body)]

\* the opaque text-to-vector capability: equal texts give equal vectors
Embed(text) ==
  LET ws == {text[i] : i \in 1..Len(text)} \ {"", " "}
  IN IF ws = {"a"} THEN <<1, 0>> ELSE IF ws = {"b"} THEN <<0, 1>> ELSE <<3, 4>>

\* saveEmbedding: the record goes to the entry's path with .md replaced
EmbeddingPath(mdPath) == [day |-> mdPath.day, name |-> mdPath.name, ext |-> "embedding"]

\* saveEmbedding: the whole record is in its file when the write resolves,
\* and the file is not there before (a single-file write is atomic)
SaveEmbedding(f, mdPath, data) ==
  [q \in DOMAIN f \cup {EmbeddingPath(mdPath)} |->
     IF q = EmbeddingPath(mdPath) THEN data ELSE f[q]]

\* ------------------------------------------------------------------ journal.ts
FormatDate(t) == t.day
FormatTimestamp(t, rnd) == [sec |-> t.sec, micro |-> t.ms * (MaxRand + 1) + rnd]

DayDirectory(t) == FormatDate(t)
FilePath(t, rnd) == [day |-> DayDirectory(t), name |-> FormatTimestamp(t, rnd), ext |-> "md"]

Frontmatter(t, projectName) ==
  <<Delim, TitleLine(t), DateLine(t), TimestampLine(t), ProjectLine(projectName), Delim>>

FormatEntry(content, t, projectName) ==
  Frontmatter(t, projectName) \o <<Txt("")>> \o content \o <<Txt("")>>

\* sections.join('\n\n')
RECURSIVE JoinSections(_)
JoinSections(ss) ==
  IF ss = << >> THEN EmptyString
  ELSE IF Len(ss) = 1 THEN ss[1]
  ELSE ss[1] \o <<Txt("")>> \o JoinSections(Tail(ss))

Section(name, body) == <<Heading(name), Txt("")>> \o body

\* the property formatThoughts reads the project section from
ProjectKey == "projectNotes"

\* object.key: undefined when the object has no such property
Prop(object, key) == IF key \in DOMAIN object THEN object[key] ELSE Undefined

FormatThoughts(thoughts, t, projectName) ==
  LET user == Prop(thoughts, "user")
      projectNotes == Prop(thoughts, ProjectKey)
      reflections == Prop(thoughts, "reflections")
      sections ==
        (IF Truthy(user) THEN <<Section(UserName, user)>> ELSE << >>)
        \o (IF Truthy(projectNotes) THEN <<Section(ProjectName, projectNotes)>> ELSE << >>)
        \o (IF Truthy(reflections) THEN <<Section(ReflectionsName, reflections)>> ELSE << >>)
  IN Frontmatter(t, projectName) \o <<Txt("")>> \o JoinSections(sections) \o <<Txt("")>>

\* text.length === 0, the trim forgotten
LengthIsZero(text) == \A i \in 1..Len(text) : text[i] = ""

\* text.trim().length === 0
TrimIsEmpty(text) == \A i \in 1..Len(text) : IsBlank(text[i])

\* the record with the path of its own file in the path field
EmbeddingDataOwnPath(filePath, content, timestamp, projectName) ==
  LET ex == ExtractSearchableText(content)
  IN [embedding |-> Embed(ex.text), text |-> ex.text, sections |-> ex.sections,
      timestamp |-> timestamp, path |-> EmbeddingPath(filePath), project |-> projectName]

EmbeddingData(filePath, content, timestamp, projectName) ==
  LET ex == ExtractSearchableText(content)
  IN [embedding |-> Embed(ex.text), text |-> ex.text, sections |-> ex.sections,
      timestamp |-> timestamp, path |-> filePath, project |-> projectName]

\* the storage tree
Put(f, p, c) == [q \in DOMAIN f \cup {p} |-> IF q = p THEN c ELSE f[q]]
MdFiles == {p \in DOMAIN files : p.ext = "md"}
EmbeddingFiles == {p \in DOMAIN files : p.ext = "embedding"}

\* ------------------------------------------------------------------ the write calls
CallIds == 1..MaxWrites

\* the arguments of the calls
Contents == {EmptyString, <<Txt("a")>>}
Thoughts ==
  { [user |-> <<Txt(" ")>>, projectNotes |-> EmptyString, reflections |-> Undefined],
    [user |-> <<Txt("a")>>, projectNotes |-> <<Txt("b")>>, reflections |-> <<Txt("a")>>] }

NoReturn == [status |-> "none", embeddingSucceeded |-> FALSE, kind |-> "", at |-> -1]
Returned(flag) == [status |-> "ok", embeddingSucceeded |-> flag, kind |-> "", at |-> -1]
\* an error thrown to the caller; `at` is the path its message names
Thrown(kind, at) == [status |-> "error", embeddingSucceeded |-> FALSE, kind |-> kind, at |-> at]

IdleCall ==
  [pc |-> "idle", op |-> "", arg |-> Undefined, timestamp |-> [day |-> 0, sec |-> 0, ms |-> 0],
   rnd |-> 0, ret |-> NoReturn, created |-> {}, saved |-> FALSE]

FormattedEntry(c) ==
  IF c.op = "writeEntry"
    THEN FormatEntry(c.arg, c.timestamp, DetectProjectName(cwd))
    ELSE FormatThoughts(c.arg, c.timestamp, DetectProjectName(cwd))

CallPath(c) == FilePath(c.timestamp, c.rnd)

WriteArgs ==
  {[op |-> "writeEntry", arg |-> c] : c \in Contents}
    \cup {[op |-> "writeThoughts", arg |-> th] : th \in Thoughts}

\* any step of a write call ends a streak of backfill runs
Dirty == IF sinceRun = "clean" THEN "dirty" ELSE sinceRun

\* ensureDirectoryExists with the mkdir error swallowed
EnsureDirectoryExistsSwallowed(dirPath, mkdirOk) == NoReturn

\* ensureDirectoryExists: access, then mkdir -p when access fails; mkdirOk
\* says whether that mkdir succeeds.  What it throws, or NoReturn.
EnsureDirectoryExists(dirPath, mkdirOk) ==
  IF dirPath \in dirs \/ mkdirOk THEN NoReturn ELSE Thrown("mkdir", dirPath)

\* writeEntry / writeThoughts up to the return of ensureDirectoryExists:
\* the instant, the project and the path are fixed here.  The server
\* connects its transport only after the startup backfill has returned
\* (PrivateJournalServer.run), so no call starts during a backfill run.
WriteStart(i) ==
  /\ calls[i].pc = "idle"
  /\ \A j \in 1..(i - 1) : calls[j].pc # "idle"
  /\ bf.pc \in {"idle", "done"}
  /\ \E a \in WriteArgs, t \in Instants, rnd \in Randoms, mkdirOk \in BOOLEAN :
       LET c == [calls[i] EXCEPT !.op = a.op, !.arg = a.arg, !.timestamp = t, !.rnd = rnd]
           thrown == EnsureDirectoryExists(DayDirectory(t), mkdirOk)
       IN /\ calls' = [calls EXCEPT ![i] =
               IF thrown.status = "error"
                 THEN [c EXCEPT !.pc = "done", !.ret = thrown]
                 ELSE [c EXCEPT !.pc = "write"]]
          /\ dirs' = IF mkdirOk THEN dirs \cup {DayDirectory(t)} ELSE dirs
  /\ sinceRun' = Dirty
  /\ UNCHANGED <<cwd, files, bf, sr, dp>>

\* generateEmbeddingForEntry up to its first await: TRUE when it returns at
\* once because there is no text to embed
SkipsEmbedding(content) == TrimIsEmpty(ExtractSearchableText(content).text)

\* fs.writeFile of the entry (it cannot resolve in a directory that does
\* not exist) and, when it resolves, the start of generateEmbeddingForEntry
WriteFile(i) ==
  /\ calls[i].pc = "write"
  /\ LET c == calls[i]
         p == CallPath(c)
         entry == FormattedEntry(c)
     IN \/ /\ p.day \in dirs
           /\ files' = Put(files, p, entry)
           /\ calls' = [calls EXCEPT ![i] =
                 [c EXCEPT !.created = c.created \cup ({p} \ DOMAIN files),
                           !.pc = IF SkipsEmbedding(entry) THEN "done" ELSE "embed",
                           !.ret = IF SkipsEmbedding(entry) THEN Returned(TRUE) ELSE NoReturn]]
        \/ /\ calls' = [calls EXCEPT ![i] =
                 [c EXCEPT !.pc = "done", !.ret = Thrown("writeFile", p.day)]]
           /\ UNCHANGED files
  /\ sinceRun' = Dirty
  /\ UNCHANGED <<cwd, dirs, bf, sr, dp>>

\* generateEmbeddingForEntry returning true from its catch as well
EmbeddingResultTrue(ok) == TRUE
\* generateEmbeddingForEntry with its two return values exchanged
EmbeddingResultInverted(ok) == ~ok

\* the rest of generateEmbeddingForEntry: what it returns when
\* generateEmbedding and saveEmbedding resolve (ok) or one of them throws
EmbeddingResult(ok) == ok

\* generateEmbedding and saveEmbedding of a write call (the vector is not
\* observable between the two awaits, so they are one step)
Embed_(i) ==
  /\ calls[i].pc = "embed"
  /\ LET c == calls[i]
         p == CallPath(c)
         data == EmbeddingData(p, FormattedEntry(c), GetTime(c.timestamp),
                               DetectProjectName(cwd))
     IN \E ok \in BOOLEAN :
          /\ files' = IF ok THEN SaveEmbedding(files, p, data) ELSE files
          /\ calls' = [calls EXCEPT ![i] =
                [c EXCEPT !.pc = "done", !.ret = Returned(EmbeddingResult(ok)),
                          !.saved = ok,
                          !.created = IF ok THEN c.created \cup ({EmbeddingPath(p)} \ DOMAIN files)
                                            ELSE c.created]]
  /\ sinceRun' = Dirty
  /\ UNCHANGED <<cwd, dirs, bf, sr, dp>>

\* ------------------------------------------------------------------ the server tools
\* a tool argument that is no string
NotAString == <<[k |-> "number", s |-> "7"]>>
\* typeof value === 'string' ? value : undefined
StringOrUndefined(value) ==
  IF value # Undefined /\ \A n \in 1..Len(value) : value[n].k = "txt" THEN value ELSE Undefined

\* request.params.arguments of process_thoughts
ProcessThoughtsArgs ==
  [user : {Undefined, <<Txt("a")>>},
   project : {Undefined, <<Txt("b")>>, NotAString},
   reflections : {Undefined, EmptyString, <<Txt("a")>>}]

\* the process_thoughts handler up to the return of ensureDirectoryExists
\* in writeThoughts: args is request.params.arguments, which a request may
\* leave out (Undefined), and reading a property of it then throws the
\* TypeError of the runtime; else the thoughts object is built, the call is
\* refused when every section is undefined, and writeThoughts starts as in
\* WriteStart
ProcessThoughts(i) ==
  /\ calls[i].pc = "idle"
  /\ bf.pc \in {"idle", "done"}
  /\ \E args \in ProcessThoughtsArgs \cup {Undefined}, t \in Instants, rnd \in Randoms,
        mkdirOk \in BOOLEAN :
       LET thoughts == [user |-> StringOrUndefined(args.user),
                        project |-> StringOrUndefined(args.project),
                        reflections |-> StringOrUndefined(args.reflections)]
           hasAnyContent == \E key \in DOMAIN thoughts : thoughts[key] # Undefined
           c == [calls[i] EXCEPT !.op = "process_thoughts", !.arg = thoughts,
                                 !.timestamp = t, !.rnd = rnd]
           thrown == EnsureDirectoryExists(DayDirectory(t), mkdirOk)
       IN IF args = Undefined
            THEN /\ calls' = [calls EXCEPT ![i] =
                       [calls[i] EXCEPT !.op = "process_thoughts", !.pc = "done",
                                        !.ret = Thrown("TypeError", -1)]]
                 /\ UNCHANGED dirs
            ELSE IF ~hasAnyContent
            THEN /\ calls' = [calls EXCEPT ![i] =
                       [c EXCEPT !.pc = "done", !.ret = Thrown("noSection", -1)]]
                 /\ UNCHANGED dirs
            ELSE /\ calls' = [calls EXCEPT ![i] =
                       IF thrown.status = "error"
                         THEN [c EXCEPT !.pc = "done", !.ret = thrown]
                         ELSE [c EXCEPT !.pc = "write"]]
                 /\ dirs' = IF mkdirOk THEN dirs \cup {DayDirectory(t)} ELSE dirs
  /\ sinceRun' = Dirty
  /\ UNCHANGED <<cwd, files, bf, sr, dp>>

\* ------------------------------------------------------------------ the backfill
\* items of the entries path that are no day directory: one that stat cannot
\* find (a link left dangling, an item removed after the listing) and one
\* that stat may not look at
BrokenLink == -1
NoAccess == -2
\* an item that stat finds and that is no day directory: a file, or a
\* directory of another name
OtherItem == -3

IdleBackfill ==
  [pc |-> "idle", days |-> {}, day |-> 0, mds |-> {}, count |-> 0, made |-> 0,
   ret |-> -1, runs |-> 0, twice |-> FALSE, serving |-> FALSE]

\* extractTimestampFromPath: the instant of the file name and the day
\* directory name, to the second
ExtractTimestampFromPath(mdPath) == [day |-> mdPath.day, sec |-> mdPath.name.sec, ms |-> 0]

\* extractProjectFromContent: the project line of the leading metadata
\* block, or "" (null) when there is none
ExtractProjectFromContent(content) ==
  IF /\ Len(content) >= 3
     /\ content[1] = Delim
     /\ \E i \in 2..Len(content) :
          content[i].k = "project" /\ \E j \in (i + 1)..Len(content) : content[j] = Delim
    THEN LET i == CHOOSE i \in 2..Len(content) :
                    content[i].k = "project" /\ \A h \in 2..(i - 1) : content[h].k # "project"
         IN content[i].name
    ELSE ""

\* the run ends: by return count, also from the catch around the scan
BackfillReturn(b) ==
  [b EXCEPT !.pc = "done", !.ret = b.count, !.twice = (sinceRun = "clean"),
            !.days = {}, !.mds = {}, !.day = 0]

\* generateMissingEmbeddings up to the listing of the entries path: the
\* startup of a server process, once the calls of the process before it
\* have ended.  With no entries path readdir throws ENOENT, which the catch
\* around the scan passes over, and count is returned
BackfillStart ==
  /\ bf.pc \in {"idle", "done"}
  /\ bf.runs < MaxRuns
  /\ \A i \in CallIds : calls[i].pc \in {"idle", "done"}
  /\ LET b == [IdleBackfill EXCEPT !.runs = bf.runs + 1]
     IN IF dirs = {}
          THEN bf' = BackfillReturn(b) /\ sinceRun' = "clean"
          ELSE bf' = [b EXCEPT !.pc = "days", !.days = dirs] /\ UNCHANGED sinceRun
  /\ UNCHANGED <<cwd, dirs, files, calls, sr, dp>>

\* the next item of the entries path: stat and, for a day directory,
\* readdir; or the end of the scan. An item that is no day directory is
\* passed over; the stat of a dangling link or of an item that may not be
\* looked at throws
BackfillDay ==
  /\ bf.pc = "days"
  /\ IF bf.days = {}
       THEN bf' = BackfillReturn(bf) /\ sinceRun' = "clean"
       ELSE \E d \in bf.days :
              LET mds == {p \in MdFiles : p.day = d}
              IN \/ /\ d \notin {BrokenLink, NoAccess}
                    /\ bf' = [bf EXCEPT !.days = bf.days \ {d}, !.day = d, !.mds = mds,
                                         !.pc = IF mds = {} THEN "days" ELSE "files"]
                    /\ UNCHANGED sinceRun
                 \/ \* stat or readdir throws: the catch around the scan
                    /\ bf' = BackfillReturn(bf)
                    /\ sinceRun' = "clean"
  /\ UNCHANGED <<cwd, dirs, files, calls, sr, dp>>

\* count++ of the loop body
CountAfter(count, made) == count + 1

\* the next entry of the day directory: access of its vector record and,
\* when there is none, readFile and generateEmbeddingForEntry
BackfillFile ==
  /\ bf.pc = "files"
  /\ \E p \in bf.mds :
       LET rest == bf.mds \ {p}
           next == [bf EXCEPT !.mds = rest, !.pc = IF rest = {} THEN "days" ELSE "files"]
           content == files[p]
           timestamp == ExtractTimestampFromPath(p)
           found == ExtractProjectFromContent(content)
           projectName == IF found # "" THEN found ELSE DetectProjectName(cwd)
           data == EmbeddingData(p, content, GetTime(timestamp), projectName)
       IN IF EmbeddingPath(p) \in DOMAIN files
            THEN bf' = next /\ UNCHANGED <<files, sinceRun>>
            ELSE \/ \* readFile throws: the catch around the scan
                    /\ bf' = BackfillReturn(bf)
                    /\ sinceRun' = "clean"
                    /\ UNCHANGED files
                 \/ \E ok \in BOOLEAN :
                      LET saves == ok /\ ~SkipsEmbedding(content)
                          made == IF saves THEN 1 ELSE 0
                      IN /\ files' = IF saves THEN SaveEmbedding(files, p, data) ELSE files
                         /\ bf' = [next EXCEPT !.count = CountAfter(bf.count, made),
                                               !.made = bf.made + made]
                         /\ UNCHANGED sinceRun
  /\ UNCHANGED <<cwd, dirs, calls, sr, dp>>

\* ------------------------------------------------------------------ specification
NoSearch == [pc |-> "idle"]
NoDetect == [pc |-> "idle"]

Init ==
  /\ cwd = <<"w", "alpha">>
  /\ dirs = {}
  /\ files = << >>
  /\ calls = [i \in CallIds |-> IdleCall]
  /\ bf = IdleBackfill
  /\ sinceRun = "none"
  /\ sr = NoSearch
  /\ dp = NoDetect

Next ==
  \/ \E i \in CallIds : WriteStart(i)
  \/ \E i \in CallIds : WriteFile(i)
  \/ \E i \in CallIds : Embed_(i)
  \/ BackfillStart
  \/ BackfillDay
  \/ BackfillFile

Spec == Init /\ [][Next]_vars

\* ------------------------------------------------------------------ search.ts
\* an option of SearchOptions that may be left undefined
Unset == [set |-> FALSE, v |-> 0]
Opt(v) == [set |-> TRUE, v |-> v]

UpperCase == <<"A", "B", "C", "D", "E", "F", "G", "H", "I", "J", "K", "L", "M",
               "N", "O", "P", "Q", "R", "S", "T", "U", "V", "W", "X", "Y", "Z">>
LowerCase == <<"a", "b", "c", "d", "e", "f", "g", "h", "i", "j", "k", "l", "m",
               "n", "o", "p", "q", "r", "s", "t", "u", "v", "w", "x", "y", "z">>
\* String.toLowerCase
ToLowerCase(str) ==
  [n \in 1..Len(str) |->
     IF \E a \in 1..Len(UpperCase) : UpperCase[a] = str[n]
       THEN LowerCase[CHOOSE a \in 1..Len(UpperCase) : UpperCase[a] = str[n]]
       ELSE str[n]]
\* String.includes
Includes(str, part) ==
  \E at \in 0..(Len(str) - Len(part)) : SubSeq(str, at + 1, at + Len(part)) = part

\* cosineSimilarity in hundredths: dot(a, b) / (|a| * |b|).  The vectors of
\* the model have whole norms, so the quotient is exact.
Dot(a, b) == a[1] * b[1] + a[2] * b[2]
Norm(a) == CHOOSE n \in 0..(Dot(a, a)) : n * n = Dot(a, a)
CosineSimilarity(a, b) == (100 * Dot(a, b)) \div (Norm(a) * Norm(b))

\* the defaults of the destructuring in search: limit = 10, minScore = 0.1
DefaultLimit == 10
DefaultMinScore == 10
LimitOf(options) == IF options.limit.set THEN options.limit.v ELSE DefaultLimit
MinScoreOf(options) == IF options.minScore.set THEN options.minScore.v ELSE DefaultMinScore

\* the date-range test with the end of the range forgotten
InDateRangeStartOnly(embedding, options) ==
  options.dateRange.set =>
    ~(options.dateRange.v.start.set /\ embedding.timestamp < options.dateRange.v.start.v)

\* the date-range test of the filter callback
InDateRange(embedding, options) ==
  options.dateRange.set =>
    /\ ~(options.dateRange.v.start.set /\ embedding.timestamp < options.dateRange.v.start.v)
    /\ ~(options.dateRange.v.end.set /\ embedding.timestamp > options.dateRange.v.end.v)

\* the callback of allEmbeddings.filter in search
SearchFilter(embedding, options) ==
  /\ ~(options.project.set /\ options.project.v # "" /\ embedding.project # options.project.v)
  /\ (options.sections.set /\ Len(options.sections.v) > 0) =>
       \E a \in 1..Len(options.sections.v), b \in 1..Len(embedding.sections) :
         Includes(ToLowerCase(embedding.sections[b]), ToLowerCase(options.sections.v[a]))
  /\ InDateRange(embedding, options)

RECURSIVE SelectSeq_(_, _)
\* Array.filter with the callback as a set of the elements kept
SelectSeq_(seq, keep) ==
  IF seq = << >> THEN << >>
  ELSE IF Head(seq) \in keep THEN <<Head(seq)>> \o SelectSeq_(Tail(seq), keep)
  ELSE SelectSeq_(Tail(seq), keep)

\* where an element goes in a list already sorted by (a, b) => b.score - a.score:
\* behind every element that does not score less (the sort is stable)
RECURSIVE InsertByScore(_, _)
InsertByScore(sorted, r) ==
  IF sorted = << >> THEN <<r>>
  ELSE IF Head(sorted).score >= r.score
    THEN <<Head(sorted)>> \o InsertByScore(Tail(sorted), r)
    ELSE <<r>> \o sorted

\* the sort left out
Unsorted(rs) == rs

RECURSIVE SortByScore(_)
\* Array.sort((a, b) => b.score - a.score)
SortByScore(rs) ==
  IF rs = << >> THEN << >>
  ELSE InsertByScore(SortByScore(SubSeq(rs, 1, Len(rs) - 1)), rs[Len(rs)])

\* Array.slice(0, limit) for limit >= 0
Slice(seq, limit) == SubSeq(seq, 1, IF limit < Len(seq) THEN limit ELSE Len(seq))

SearchResult(embedding, score) ==
  [path |-> embedding.path, score |-> score, text |-> embedding.text,
   sections |-> embedding.sections, timestamp |-> embedding.timestamp,
   project |-> embedding.project]

\* search from the filter on: filter, map, filter by minScore, sort, slice
SearchResults(queryEmbedding, options, allEmbeddings) ==
  LET all == {allEmbeddings[n] : n \in 1..Len(allEmbeddings)}
      filtered == SelectSeq_(allEmbeddings, {e \in all : SearchFilter(e, options)})
      mapped == [n \in 1..Len(filtered) |->
                   SearchResult(filtered[n], CosineSimilarity(queryEmbedding, filtered[n].embedding))]
      scored == SelectSeq_(mapped, {r \in {mapped[n] : n \in 1..Len(mapped)} :
                                      r.score >= MinScoreOf(options)})
  IN Slice(SortByScore(scored), LimitOf(options))

\* the orders in which readdir may list the day directories and their files
RECURSIVE Orders(_)
Orders(S) ==
  IF S = {} THEN {<< >>}
  ELSE UNION {{<<p>> \o rest : rest \in Orders(S \ {p})} : p \in S}
ByDay(order) ==
  \A a, b, c \in 1..Len(order) :
    (a < b /\ b < c /\ order[a].day = order[c].day) => order[b].day = order[a].day

\* what a vector-record file may hold in place of a record: text that
\* JSON.parse rejects, the text "null", or nothing that readFile can read
InvalidJson == [raw |-> "{"]
JsonNull == [raw |-> "null"]
Unreadable == [errno |-> "EACCES"]

\* readFile or JSON.parse throws: the catch of the inner loop
FailsToLoad(content) == content \in {InvalidJson, Unreadable}

\* loadEmbeddingsFromPath, the loops: the records in the order of the
\* listings, and the count of the files that did not load
LoadEmbeddingsFromPath(order) ==
  LET read == [n \in 1..Len(order) |-> files[order[n]]]
  IN [embeddings |-> SelectSeq_(read, {read[n] : n \in {m \in 1..Len(order) : ~FailsToLoad(read[m])}}),
      failedCount |-> Cardinality({n \in 1..Len(order) : FailsToLoad(read[n])})]

\* every error of the scan thrown again
LoadCatchRethrows(code) ==
  [threw |-> "Failed to read embeddings", embeddings |-> << >>, failedCount |-> 0]

\* the catch around loadEmbeddingsFromPath: ENOENT is an empty store, any
\* other error is thrown again
LoadCatch(code) ==
  IF code = "ENOENT"
    THEN [threw |-> "", embeddings |-> << >>, failedCount |-> 0]
    ELSE [threw |-> "Failed to read embeddings", embeddings |-> << >>, failedCount |-> 0]

\* loadEmbeddingsFromPath: what it may return or throw on the tree as it is.
\* The entries path exists once a day directory has been made in it (mkdir
\* -p): with no item at all it is taken as missing, and readdir throws
\* ENOENT.  The stat of an item that fails ends the scan in the catch,
\* whatever was loaded before.
LoadOutcomes ==
  LET faults == dirs \cap {BrokenLink, NoAccess}
  IN IF dirs = {}
       THEN {LoadCatch("ENOENT")}
       ELSE IF faults = {}
       THEN {[threw |-> ""] @@ LoadEmbeddingsFromPath(order) :
               order \in {o \in Orders(EmbeddingFiles) : ByDay(o)}}
       ELSE {LoadCatch(IF f = BrokenLink THEN "ENOENT" ELSE "EACCES") : f \in faults}

\* the warning given only from the second failure on
WarningForMany(failedCount) == failedCount > 1

\* if (failedCount > 0) warning = ...
WarningFor(failedCount) == failedCount > 0

\* reading a property of null throws a TypeError: the filter callback, or
\* the map callback behind it, reads one of every record
SearchThrows(allEmbeddings, options) ==
  \E n \in 1..Len(allEmbeddings) : allEmbeddings[n] = JsonNull

\* the arguments of search
Queries == {<<"a">>, <<"a", "b">>}
ProjectFilters == {Unset, Opt(""), Opt("alpha"), Opt("gamma")}
SectionFilters ==
  {Unset, Opt(<< >>), Opt(<<<<"u", "s", "e", "r">>>>),
   Opt(<<<<"z">>, <<"R", "E", "F">>>>)}
DateRanges ==
  {Unset} \cup {Opt([start |-> a, end |-> b]) : a \in {Unset, Opt(1)}, b \in {Unset, Opt(1)}}
Limits == {Unset, Opt(0), Opt(1), Opt(2)}
MinScores == {Unset, Opt(0), Opt(80)}
SearchOptions ==
  [limit : Limits, minScore : MinScores, sections : SectionFilters,
   dateRange : DateRanges, project : ProjectFilters]

\* search: the query is embedded (that may throw), the records are loaded,
\* filtered, scored, sorted and cut.  What it may throw or return.
SearchOutcomes(query, options) ==
  {[threw |-> "generateEmbedding", results |-> << >>, warning |-> FALSE]}
    \cup {LET threw == IF loaded.threw # "" THEN loaded.threw
                       ELSE IF SearchThrows(loaded.embeddings, options) THEN "TypeError"
                       ELSE ""
          IN [threw |-> threw,
              results |-> IF threw # "" THEN << >>
                          ELSE SearchResults(Embed(query), options, loaded.embeddings),
              warning |-> threw = "" /\ WarningFor(loaded.failedCount)] :
          loaded \in LoadOutcomes}

Search ==
  /\ sr.pc = "idle"
  /\ \E query \in Queries, options \in SearchOptions :
       \E out \in SearchOutcomes(query, options) :
         sr' = [pc |-> "done", op |-> "search", query |-> query, options |-> options,
                threw |-> out.threw, results |-> out.results, warning |-> out.warning]
  /\ UNCHANGED <<cwd, dirs, files, calls, bf, sinceRun, dp>>

\* the callback of allEmbeddings.filter in listRecent
ListRecentFilter(embedding, options) ==
  /\ ~(options.project.set /\ options.project.v # "" /\ embedding.project # options.project.v)
  /\ InDateRange(embedding, options)

\* where a record goes in a list already sorted by
\* (a, b) => b.timestamp - a.timestamp (the sort is stable)
RECURSIVE InsertByTimestamp(_, _)
InsertByTimestamp(sorted, e) ==
  IF sorted = << >> THEN <<e>>
  ELSE IF Head(sorted).timestamp >= e.timestamp
    THEN <<Head(sorted)>> \o InsertByTimestamp(Tail(sorted), e)
    ELSE <<e>> \o sorted

RECURSIVE SortByTimestamp(_)
\* Array.sort((a, b) => b.timestamp - a.timestamp)
SortByTimestamp(es) ==
  IF es = << >> THEN << >>
  ELSE InsertByTimestamp(SortByTimestamp(SubSeq(es, 1, Len(es) - 1)), es[Len(es)])

\* score: 1 of the map callback
RecentScore == 1

\* listRecent from the filter on: filter, sort, slice, map
ListRecentResults(options, allEmbeddings) ==
  LET all == {allEmbeddings[n] : n \in 1..Len(allEmbeddings)}
      filtered == SelectSeq_(allEmbeddings, {e \in all : ListRecentFilter(e, options)})
      cut == Slice(SortByTimestamp(filtered), LimitOf(options))
  IN [n \in 1..Len(cut) |-> SearchResult(cut[n], RecentScore)]

\* listRecent over a null record: the filter callback reads it when a
\* project or a date range is given, the comparator when there is another
\* record, the map callback when the cut keeps it
ListRecentThrows(allEmbeddings, options) ==
  /\ \E n \in 1..Len(allEmbeddings) : allEmbeddings[n] = JsonNull
  /\ \/ options.project.set /\ options.project.v # ""
     \/ options.dateRange.set
     \/ Len(allEmbeddings) > 1
     \/ LimitOf(options) > 0

\* the options listRecent is called with (it does not read minScore)
ListOptions == {o \in SearchOptions : ~o.minScore.set}

\* listRecent: the records are loaded, filtered, sorted and cut.  What it
\* may throw or return.
ListRecentOutcomes(options) ==
  {LET threw == IF loaded.threw # "" THEN loaded.threw
                ELSE IF ListRecentThrows(loaded.embeddings, options) THEN "TypeError"
                ELSE ""
   IN [threw |-> threw,
       results |-> IF threw # "" THEN << >>
                   ELSE ListRecentResults(options, loaded.embeddings),
       warning |-> threw = "" /\ WarningFor(loaded.failedCount)] :
   loaded \in LoadOutcomes}

ListRecent ==
  /\ sr.pc = "idle"
  /\ \E options \in ListOptions :
       \E out \in ListRecentOutcomes(options) :
         sr' = [pc |-> "done", op |-> "listRecent", query |-> << >>, options |-> options,
                threw |-> out.threw, results |-> out.results, warning |-> out.warning]
  /\ UNCHANGED <<cwd, dirs, files, calls, bf, sinceRun, dp>>

\* value > 0 for a value that may be undefined (undefined > 0 is false)
IsPositive(value) == IF value = Undefined THEN FALSE ELSE value > 0

\* the text of a tool response: results.length > 0 ? the entries listed in
\* the order of the results : the sentence that nothing was found, where
\* results is what search / listRecent returned, the object { results, warning }
ResponseText(returned) ==
  IF IsPositive(Prop(returned, "length"))
    THEN [found |-> TRUE,
          entries |-> [n \in 1..Len(returned.results) |->
                         [path |-> returned.results[n].path,
                          score |-> returned.results[n].score,
                          sections |-> returned.results[n].sections,
                          timestamp |-> returned.results[n].timestamp,
                          project |-> returned.results[n].project]]]
    ELSE [found |-> FALSE, entries |-> << >>]

\* args.query of search_journal with its typeof: a string, left out (also
\* when the request has no arguments), or a value of another type
QueryArgs ==
  {[type |-> "string", value |-> q] : q \in Queries}
    \cup {[type |-> "undefined"], [type |-> "number"]}

\* the search_journal handler: a call whose query is no string is refused
\* before anything else is done; else limit (10 when no number), project and
\* sections go to search, and what it returns is put into the response text
SearchJournalOf(queryArgs, limits, projectFilters, sectionFilters) ==
  /\ sr.pc = "idle"
  /\ \E arg \in queryArgs, limit \in limits, project \in projectFilters,
        sections \in sectionFilters :
       LET query == IF arg.type = "string" THEN arg.value ELSE << >>
           options == [limit |-> IF limit.set THEN limit ELSE Opt(DefaultLimit),
                       minScore |-> Unset, sections |-> sections, dateRange |-> Unset,
                       project |-> project]
       IN IF arg.type # "string"
            THEN sr' = [pc |-> "done", op |-> "search_journal", query |-> query,
                        options |-> options, threw |-> "query is required and must be a string",
                        results |-> << >>, warning |-> FALSE,
                        response |-> [found |-> FALSE, entries |-> << >>]]
            ELSE \E out \in SearchOutcomes(query, options) :
                   sr' = [pc |-> "done", op |-> "search_journal", query |-> query,
                          options |-> options, threw |-> out.threw, results |-> out.results,
                          warning |-> out.warning,
                          response |-> IF out.threw # "" THEN [found |-> FALSE, entries |-> << >>]
                                       ELSE ResponseText([results |-> out.results,
                                                          warning |-> out.warning])]
  /\ UNCHANGED <<cwd, dirs, files, calls, bf, sinceRun, dp>>

SearchJournal == SearchJournalOf(QueryArgs, Limits, ProjectFilters, SectionFilters)

\* the instants that lie `days` days before the call of list_recent_entries
StartDates == {GetTime(t) : t \in Instants}

\* the list_recent_entries handler: limit (10 when no number), project and
\* the start of the date range go to listRecent
ListRecentEntries ==
  /\ sr.pc = "idle"
  /\ \E limit \in Limits, project \in ProjectFilters, startDate \in StartDates :
       LET options == [limit |-> IF limit.set THEN limit ELSE Opt(DefaultLimit),
                       minScore |-> Unset, sections |-> Unset,
                       dateRange |-> Opt([start |-> Opt(startDate), end |-> Unset]),
                       project |-> project]
       IN \E out \in ListRecentOutcomes(options) :
            sr' = [pc |-> "done", op |-> "list_recent_entries", query |-> << >>,
                   options |-> options, threw |-> out.threw, results |-> out.results,
                   warning |-> out.warning,
                   response |-> IF out.threw # "" THEN [found |-> FALSE, entries |-> << >>]
                                ELSE ResponseText([results |-> out.results,
                                                   warning |-> out.warning])]
  /\ UNCHANGED <<cwd, dirs, files, calls, bf, sinceRun, dp>>

\* the paths readEntry is called with
ReadPaths == {FilePath(t, rnd) : t \in Instants, rnd \in Randoms}

\* what fs.readFile may do: the content of a file that exists, or an error
ReadFileOutcomes(filePath) ==
  IF filePath \in DOMAIN files
    THEN {[code |-> "", content |-> files[filePath]], [code |-> "EACCES", content |-> << >>]}
    ELSE {[code |-> "ENOENT", content |-> << >>]}

\* the catch of readEntry with every error thrown again
ReadEntryCatchRethrows(code) == code

\* the catch of readEntry: null for ENOENT ("" here), the error otherwise
ReadEntryCatch(code) == IF code = "ENOENT" THEN "" ELSE code

\* readEntry
ReadEntry ==
  /\ sr.pc = "idle"
  /\ \E filePath \in ReadPaths :
       \E read \in ReadFileOutcomes(filePath) :
         LET threw == IF read.code = "" THEN "" ELSE ReadEntryCatch(read.code)
         IN sr' = [pc |-> "done", op |-> "readEntry", path |-> filePath, threw |-> threw,
                   ret |-> [isNull |-> read.code # "" /\ threw = "",
                            content |-> read.content]]
  /\ UNCHANGED <<cwd, dirs, files, calls, bf, sinceRun, dp>>

\* ---- search and listRecent step by step, for the calls that run beside them
\* every file of a day directory taken for a vector record
AnyFile(file) == TRUE
\* files.filter(file => file.endsWith('.embedding'))
IsEmbeddingFile(file) == file.ext = "embedding"

\* the arguments of the calls that are followed step by step
RaceQuery == <<"a">>
RaceOptions ==
  [limit |-> Unset, minScore |-> Unset, sections |-> Unset, dateRange |-> Unset,
   project |-> Unset]

\* what search or listRecent does with what loadEmbeddingsFromPath gave
ScanResult(op, ld) ==
  LET threw == IF ld.threw # "" THEN ld.threw
               ELSE IF op = "search" /\ SearchThrows(ld.embeddings, RaceOptions) THEN "TypeError"
               ELSE IF op = "listRecent" /\ ListRecentThrows(ld.embeddings, RaceOptions)
                 THEN "TypeError"
               ELSE ""
  IN [threw |-> threw,
      results |-> IF threw # "" THEN << >>
                  ELSE IF op = "search"
                    THEN SearchResults(Embed(RaceQuery), RaceOptions, ld.embeddings)
                  ELSE ListRecentResults(RaceOptions, ld.embeddings),
      warning |-> threw = "" /\ WarningFor(ld.failedCount)]

\* the call has ended: `loaded` is what the scan read, `before` the record
\* files that were there when the scan began
ScanDone(s, ld) ==
  LET out == ScanResult(s.op, ld)
  IN [pc |-> "done", op |-> s.op, query |-> s.query, options |-> RaceOptions,
      threw |-> out.threw, results |-> out.results, warning |-> out.warning,
      loaded |-> ld.embeddings, before |-> s.before]

\* search up to the return of fs.readdir(basePath) (the query is embedded
\* first, which may throw), listRecent likewise
ScanStart ==
  /\ sr.pc = "idle"
  /\ \E op \in {"search", "listRecent"}, embedded \in BOOLEAN :
       LET s == [pc |-> "scan", op |-> op,
                 query |-> IF op = "search" THEN RaceQuery ELSE << >>,
                 days |-> dirs, todo |-> {}, loaded |-> << >>, failedCount |-> 0,
                 before |-> EmbeddingFiles]
       IN IF op = "search" /\ ~embedded
            THEN sr' = [pc |-> "done", op |-> op, query |-> RaceQuery, options |-> RaceOptions,
                        threw |-> "generateEmbedding", results |-> << >>, warning |-> FALSE,
                        loaded |-> << >>, before |-> EmbeddingFiles]
            ELSE IF dirs = {}
              THEN sr' = ScanDone(s, LoadCatch("ENOENT"))
              ELSE sr' = s
  /\ UNCHANGED <<cwd, dirs, files, calls, bf, sinceRun, dp>>

\* the next item of the listing: stat and, for a day directory, readdir and
\* the filter of its files; after the last item the records are handed on
ScanDay ==
  /\ sr.pc = "scan" /\ sr.todo = {}
  /\ IF sr.days = {}
       THEN sr' = ScanDone(sr, [threw |-> "", embeddings |-> sr.loaded,
                                failedCount |-> sr.failedCount])
       ELSE \E d \in sr.days :
              IF d \in {BrokenLink, NoAccess}
                THEN sr' = ScanDone(sr, LoadCatch(IF d = BrokenLink THEN "ENOENT" ELSE "EACCES"))
                ELSE sr' = [sr EXCEPT !.days = sr.days \ {d},
                                      !.todo = {q \in DOMAIN files : q.day = d /\ IsEmbeddingFile(q)}]
  /\ UNCHANGED <<cwd, dirs, files, calls, bf, sinceRun, dp>>

\* the next file of the day directory: readFile and JSON.parse in a try of
\* their own (the text of an entry file is no JSON)
ScanFile ==
  /\ sr.pc = "scan" /\ sr.todo # {}
  /\ \E q \in sr.todo :
       LET fails == IF q.ext = "embedding" THEN FailsToLoad(files[q]) ELSE TRUE
       IN sr' = [sr EXCEPT !.todo = sr.todo \ {q},
                           !.loaded = IF fails THEN sr.loaded ELSE Append(sr.loaded, files[q]),
                           !.failedCount = IF fails THEN sr.failedCount + 1 ELSE sr.failedCount]
  /\ UNCHANGED <<cwd, dirs, files, calls, bf, sinceRun, dp>>

\* ---- generateExcerpt, on strings as sequences of characters
Ellipsis == <<".", ".", ".">>
Whitespace == {" "}
\* query.trim() === ''
TrimmedIsEmpty(str) == \A n \in 1..Len(str) : str[n] \in Whitespace

\* str.split(/\s+/): the pieces between the runs of whitespace, the empty
\* piece before a leading run and after a trailing one included
RECURSIVE SplitFrom(_, _, _)
SplitFrom(str, n, piece) ==
  IF n > Len(str) THEN <<piece>>
  ELSE IF str[n] \in Whitespace
    THEN IF n > 1 /\ str[n - 1] \in Whitespace
           THEN SplitFrom(str, n + 1, piece)
           ELSE <<piece>> \o SplitFrom(str, n + 1, << >>)
    ELSE SplitFrom(str, n + 1, Append(piece, str[n]))
SplitWhitespace(str) == SplitFrom(str, 1, << >>)

\* String.slice(from, to) for 0 <= from <= to
StringSlice(str, from, to) == SubSeq(str, from + 1, IF to < Len(str) THEN to ELSE Len(str))

RECURSIVE WindowScore(_, _)
\* the words of the query counted once each
DistinctWordScore(window, queryWords) ==
  Cardinality({queryWords[n] : n \in {m \in 1..Len(queryWords) : Includes(window, queryWords[m])}})

\* queryWords.reduce((sum, word) => sum + (window.includes(word) ? 1 : 0), 0)
WindowScore(window, queryWords) ==
  IF queryWords = << >> THEN 0
  ELSE (IF Includes(window, Head(queryWords)) THEN 1 ELSE 0)
         + WindowScore(window, Tail(queryWords))

\* the loop over the windows: for (i = 0; i <= text.length - maxLength; i += step)
RECURSIVE BestPosition(_, _, _, _, _, _)
BestPosition(textLower, queryWords, maxLength, i, bestPosition, bestScore) ==
  IF i > Len(textLower) - maxLength THEN bestPosition
  ELSE LET score == WindowScore(StringSlice(textLower, i, i + maxLength), queryWords)
       IN IF score > bestScore
            THEN BestPosition(textLower, queryWords, maxLength, i + ExcerptStep, i, score)
            ELSE BestPosition(textLower, queryWords, maxLength, i + ExcerptStep,
                              bestPosition, bestScore)

GenerateExcerpt(text, query, maxLength) ==
  IF query = << >> \/ TrimmedIsEmpty(query)
    THEN StringSlice(text, 0, maxLength) \o (IF Len(text) > maxLength THEN Ellipsis ELSE << >>)
    ELSE LET queryWords == SplitWhitespace(ToLowerCase(query))
             bestPosition == BestPosition(ToLowerCase(text), queryWords, maxLength, 0, 0, 0)
         IN (IF bestPosition > 0 THEN Ellipsis ELSE << >>)
              \o StringSlice(text, bestPosition, bestPosition + maxLength)
              \o (IF bestPosition + maxLength < Len(text) THEN Ellipsis ELSE << >>)

\* the texts and queries excerpts are made of
RECURSIVE StringsOver(_, _)
StringsOver(alphabet, maxLen) ==
  IF maxLen = 0 THEN {<< >>}
  ELSE LET shorter == StringsOver(alphabet, maxLen - 1)
       IN shorter \cup {Append(str, ch) : str \in shorter, ch \in alphabet}
ExcerptTexts == StringsOver({"a", "B", "x"}, MaxText)
ExcerptQueries == StringsOver({"a", "b", " "}, MaxQuery)

\* this.generateExcerpt(embedding.text, query) of the map callback of search
Excerpt ==
  /\ sr.pc = "excerpt"
  /\ sr' = [pc |-> "done", op |-> "generateExcerpt", text |-> sr.text, query |-> sr.query,
            ret |-> GenerateExcerpt(sr.text, sr.query, ExcerptLength)]
  /\ UNCHANGED <<cwd, dirs, files, calls, bf, sinceRun, dp>>

ExcerptInit ==
  /\ cwd = <<"w", "alpha">>
  /\ dirs = {}
  /\ files = << >>
  /\ calls = [i \in CallIds |-> IdleCall]
  /\ bf = IdleBackfill
  /\ sinceRun = "none"
  /\ \E text \in ExcerptTexts, query \in ExcerptQueries :
       sr = [pc |-> "excerpt", text |-> text, query |-> query]
  /\ dp = NoDetect

ExcerptSpec == ExcerptInit /\ [][Excerpt]_vars

\* the storage trees that search is run on: what some of these write calls
\* have left, each with its entry and its vector record
Corpus ==
  { [op |-> "writeThoughts", cwd |-> <<"w", "alpha">>, rnd |-> 0,
     timestamp |-> [day |-> 0, sec |-> 0, ms |-> 0],
     arg |-> [user |-> <<Txt("a")>>, projectNotes |-> Undefined, reflections |-> Undefined]],
    [op |-> "writeThoughts", cwd |-> <<"w", "alpha">>, rnd |-> 0,
     timestamp |-> [day |-> 0, sec |-> 0, ms |-> 1],
     arg |-> [user |-> Undefined, projectNotes |-> <<Txt("b")>>, reflections |-> <<Txt("b")>>]],
    [op |-> "writeEntry", cwd |-> Home, rnd |-> 1,
     timestamp |-> [day |-> 0, sec |-> 0, ms |-> 1],
     arg |-> <<Txt("a")>>],
    [op |-> "writeThoughts", cwd |-> Home, rnd |-> 0,
     timestamp |-> [day |-> 1, sec |-> 0, ms |-> 0],
     arg |-> [user |-> <<Txt("a")>>, projectNotes |-> Undefined, reflections |-> <<Txt("b")>>]] }

Written(w) ==
  IF w.op = "writeEntry"
    THEN FormatEntry(w.arg, w.timestamp, DetectProjectName(w.cwd))
    ELSE FormatThoughts(w.arg, w.timestamp, DetectProjectName(w.cwd))

TreeOf(ws) ==
  LET mds == {FilePath(w.timestamp, w.rnd) : w \in ws}
      of(p) == CHOOSE w \in ws : FilePath(w.timestamp, w.rnd) = p
  IN [p \in mds \cup {EmbeddingPath(q) : q \in mds} |->
        IF p.ext = "md" THEN Written(of(p))
        ELSE LET w == of([p EXCEPT !.ext = "md"])
             IN EmbeddingData(FilePath(w.timestamp, w.rnd), Written(w), GetTime(w.timestamp),
                              DetectProjectName(w.cwd))]

SearchInit ==
  /\ cwd = <<"w", "alpha">>
  /\ \E ws \in SUBSET Corpus :
       /\ files = TreeOf(ws)
       /\ dirs = {w.timestamp.day : w \in ws}
  /\ calls = [i \in CallIds |-> IdleCall]
  /\ bf = IdleBackfill
  /\ sinceRun = "none"
  /\ sr = NoSearch
  /\ dp = NoDetect

SearchNext ==
  \/ Search
  \/ ListRecent
  \/ SearchJournal
  \/ ListRecentEntries
  \/ ReadEntry

SearchSpec == SearchInit /\ [][SearchNext]_vars

\* one process_thoughts call of the server: what it writes does not depend
\* on the calls beside it
ToolNext ==
  \/ ProcessThoughts(1)
  \/ WriteFile(1)
  \/ Embed_(1)
  \/ SearchJournal

ToolSpec == Init /\ [][ToolNext]_vars

\* the readers and the backfill on a store that has never been written to
FirstUseNext ==
  \/ Search
  \/ ListRecent
  \/ BackfillStart

FirstUseSpec == Init /\ [][FirstUseNext]_vars

\* the stores the backfill is run on: entries that some write calls have
\* left in working directories of their own, each with or without its vector
\* record, and beside them an entry of an earlier layout whose metadata has
\* no project line, and an entry written where detectProjectName returned
\* the empty name
LegacyAt == [day |-> 1, sec |-> 0, ms |-> 1]
LegacyEntry ==
  <<Delim, TitleLine(LegacyAt), DateLine(LegacyAt), TimestampLine(LegacyAt), Delim,
    Txt(""), Txt("a"), Txt("")>>
EmptyTagAt == [day |-> 1, sec |-> 0, ms |-> 0]
EmptyTagEntry == FormatEntry(<<Txt("b")>>, EmptyTagAt, "")
OtherEntries ==
  {[path |-> FilePath(LegacyAt, 1), content |-> LegacyEntry],
   [path |-> FilePath(EmptyTagAt, 1), content |-> EmptyTagEntry]}

BackfillInit ==
  /\ cwd = <<"w", "alpha">>
  /\ \E ws \in SUBSET Corpus, bare \in SUBSET Corpus, others \in SUBSET OtherEntries :
       LET tree == TreeOf(ws)
           gone == {EmbeddingPath(FilePath(w.timestamp, w.rnd)) : w \in bare}
           more == {o.path : o \in others}
       IN /\ bare \subseteq ws
          /\ files = [q \in (DOMAIN tree \ gone) \cup more |->
                        IF q \in more THEN (CHOOSE o \in others : o.path = q).content
                        ELSE tree[q]]
          /\ dirs = {w.timestamp.day : w \in ws} \cup {o.path.day : o \in others}
  /\ calls = [i \in CallIds |-> IdleCall]
  /\ bf = IdleBackfill
  /\ sinceRun = "none"
  /\ sr = NoSearch
  /\ dp = NoDetect

BackfillNext ==
  \/ BackfillStart
  \/ BackfillDay
  \/ BackfillFile

BackfillSpec == BackfillInit /\ [][BackfillNext]_vars

\* PrivateJournalServer.run: generateMissingEmbeddings is awaited inside a
\* try, and when it has settled the transport is connected; the tool
\* handlers are called with the requests that come over the transport
AwaitsNothing(b) == TRUE
BackfillSettled(b) == b.pc = "done"

RunStart ==
  /\ bf.pc = "idle"
  /\ BackfillStart

Connect ==
  /\ ~bf.serving
  /\ bf.pc # "idle"
  /\ BackfillSettled(bf)
  /\ bf' = [bf EXCEPT !.serving = TRUE]
  /\ UNCHANGED <<cwd, dirs, files, calls, sinceRun, sr, dp>>

\* a request for a tool, served once the transport is connected
ToolCall ==
  /\ bf.serving
  /\ \/ ProcessThoughts(1)
     \/ WriteFile(1)
     \/ Embed_(1)
     \/ SearchJournalOf({[type |-> "string", value |-> <<"a">>]}, {Unset}, {Unset}, {Unset})

ServerInit ==
  /\ BackfillInit
  /\ Cardinality(DOMAIN files) <= MaxServerFiles

ServerNext ==
  \/ RunStart
  \/ BackfillDay
  \/ BackfillFile
  \/ Connect
  \/ ToolCall

\* every await of run and of generateMissingEmbeddings settles
ServerSpec ==
  /\ ServerInit /\ [][ServerNext]_vars
  /\ WF_vars(RunStart) /\ WF_vars(BackfillDay) /\ WF_vars(BackfillFile) /\ WF_vars(Connect)

\* one write call beside one search or listRecent, each step by step, on a
\* store that earlier write calls have left
RaceNext ==
  \/ WriteStart(1)
  \/ WriteFile(1)
  \/ Embed_(1)
  \/ ScanStart
  \/ ScanDay
  \/ ScanFile

RaceSpec == SearchInit /\ [][RaceNext]_vars

\* detectProjectName on its own
PathNext ==
  \/ DetectStart
  \/ DetectExit

PathSpec == Init /\ [][PathNext]_vars

\* the damaged storage trees: what some of these write calls have left,
\* with one vector-record file damaged or one item of the entries path
\* that stat fails on
ScanCorpus == {w \in Corpus : w.cwd = <<"w", "alpha">> \/ w.op = "writeEntry"}
Damages == {InvalidJson, JsonNull, Unreadable}

ScanInit ==
  /\ cwd = <<"w", "alpha">>
  /\ \E ws \in SUBSET ScanCorpus :
       LET tree == TreeOf(ws)
           days == {w.timestamp.day : w \in ws}
       IN \/ /\ files = tree
             /\ dirs \in {days, days \cup {BrokenLink}, days \cup {NoAccess},
                          days \cup {OtherItem}}
          \/ \E q \in {q \in DOMAIN tree : q.ext = "embedding"}, d \in Damages :
               files = [tree EXCEPT ![q] = d] /\ dirs = days
  /\ calls = [i \in CallIds |-> IdleCall]
  /\ bf = IdleBackfill
  /\ sinceRun = "none"
  /\ sr = NoSearch
  /\ dp = NoDetect

ScanNext ==
  \/ Search
  \/ ListRecent

ScanSpec == ScanInit /\ [][ScanNext]_vars

\* ------------------------------------------------------------------ the claims
Done(i) == calls[i].pc = "done"
ReturnedOk(i) == Done(i) /\ calls[i].ret.status = "ok"
MdOf(c) == [day |-> c.timestamp.day, name |-> CallPath(c).name, ext |-> "md"]
RecordOf(c) == [day |-> c.timestamp.day, name |-> CallPath(c).name, ext |-> "embedding"]
HasText(c) ==
  LET text == ExtractSearchableText(FormattedEntry(c)).text
  IN \E i \in 1..Len(text) : ~IsBlank(text[i])

\* C1: a write call that has returned successfully has created exactly one
\* new entry file, in the day directory of its instant's date; when its text
\* is not empty and the embedding succeeded it has created exactly one new
\* vector record, of the same base name in the same directory; and it has
\* created no other file.
C1_OneNewEntryPerWrite ==
  \A i \in CallIds :
    ReturnedOk(i) =>
      LET c == calls[i]
      IN /\ {q \in c.created : q.ext = "md"} = {MdOf(c)}
         /\ (HasText(c) /\ c.saved) => {q \in c.created : q.ext = "embedding"} = {RecordOf(c)}
         /\ c.created \subseteq {MdOf(c), RecordOf(c)}

\* C2: no two write calls resolve to the same entry file path, so n calls
\* that have returned successfully have left n distinct entry files.
C2_DistinctEntryPaths ==
  /\ \A i, j \in CallIds :
       (i # j /\ calls[i].pc # "idle" /\ calls[j].pc # "idle")
         => CallPath(calls[i]) # CallPath(calls[j])
  /\ Cardinality({i \in CallIds : ReturnedOk(i)}) <= Cardinality(MdFiles)

\* C3: when generating or saving the vector record fails, the step in which
\* it fails returns { embeddingSucceeded: false } to the caller, throws
\* nothing and leaves every file, the entry just written among them, as it is.
C3_EmbeddingFailureKeepsEntry ==
  [][\A i \in CallIds :
       (calls[i].pc = "embed" /\ calls'[i].pc = "done" /\ ~calls'[i].saved)
         => /\ calls'[i].ret = Returned(FALSE)
            /\ MdOf(calls[i]) \in DOMAIN files'
            /\ files' = files]_vars
C3_Witness ==
  \E i \in CallIds :
    /\ ReturnedOk(i) /\ ~calls[i].ret.embeddingSucceeded
    /\ MdOf(calls[i]) \in DOMAIN files

\* C4 as claimed: the flag a write call returns is true exactly when the
\* call persisted a vector record.
C4_FlagIffRecord ==
  \A i \in CallIds : ReturnedOk(i) => (calls[i].ret.embeddingSucceeded <=> calls[i].saved)
\* C4 as amended: the flag is true exactly when the call persisted a vector
\* record or had no text to embed (it then writes no record); a call that
\* returns false has persisted none, and a record persisted is in the tree.
C4_FlagFalseIffFailure ==
  \A i \in CallIds :
    ReturnedOk(i) =>
      /\ calls[i].ret.embeddingSucceeded <=> (calls[i].saved \/ ~HasText(calls[i]))
      /\ ~HasText(calls[i]) => ~calls[i].saved
      /\ calls[i].saved => RecordOf(calls[i]) \in DOMAIN files
C4_Witness ==
  /\ \E i \in CallIds : ReturnedOk(i) /\ calls[i].ret.embeddingSucceeded /\ ~calls[i].saved
  /\ \E i \in CallIds : ReturnedOk(i) /\ ~calls[i].ret.embeddingSucceeded /\ HasText(calls[i])

\* what a caller passed is empty or whitespace in every part
BlankString(s) == \A n \in 1..Len(s) : s[n].k = "txt" /\ IsBlank(s[n].s)
BlankArg(c) ==
  IF c.op = "writeEntry" THEN BlankString(c.arg)
  ELSE BlankString(c.arg.user) /\ BlankString(c.arg.projectNotes)
         /\ BlankString(c.arg.reflections)
CompleteMetadata(content) ==
  /\ Len(content) >= 6
  /\ content[1] = Delim /\ content[6] = Delim
  /\ <<content[2].k, content[3].k, content[4].k, content[5].k>>
       = <<"title", "date", "timestamp", "project">>

\* C5: a write of empty or whitespace-only content never reaches the
\* embedding and never persists a vector record; the only errors it can end
\* in are those of the directory and the entry file; and when it returns it
\* reports success, with the entry file in place and its metadata complete.
C5_BlankWriteHasNoRecord ==
  \A i \in CallIds :
    (calls[i].pc # "idle" /\ BlankArg(calls[i])) =>
      /\ ~calls[i].saved /\ calls[i].pc # "embed"
      /\ (Done(i) /\ ~ReturnedOk(i)) => calls[i].ret.kind \in {"mkdir", "writeFile"}
      /\ ReturnedOk(i) =>
           /\ calls[i].ret.embeddingSucceeded
           /\ MdOf(calls[i]) \in DOMAIN files
           /\ CompleteMetadata(files[MdOf(calls[i])])
C5_Witness ==
  /\ \E i \in CallIds : calls[i].op = "writeEntry" /\ BlankArg(calls[i]) /\ ReturnedOk(i)
  /\ \E i \in CallIds : calls[i].op = "writeThoughts" /\ BlankArg(calls[i]) /\ ReturnedOk(i)

\* C6: a write call goes on to write only in a day directory that exists;
\* when the directory is missing and cannot be created the call has ended
\* in an error whose message names the day directory, and has written
\* neither an entry file nor a vector record.
C6_MkdirFailurePropagates ==
  \A i \in CallIds :
    calls[i].pc # "idle" =>
      \/ /\ calls[i].timestamp.day \in dirs
         /\ calls[i].ret.kind # "mkdir"
      \/ /\ Done(i)
         /\ calls[i].ret = Thrown("mkdir", calls[i].timestamp.day)
         /\ calls[i].created = {} /\ ~calls[i].saved
C6_Witness ==
  \E i \in CallIds :
    /\ Done(i) /\ calls[i].ret.kind = "mkdir"
    /\ calls[i].timestamp.day \notin dirs
    /\ MdOf(calls[i]) \notin DOMAIN files

\* C7: a backfill run that follows another with no step of a write call in
\* between creates no vector record and returns 0.
C7_BackfillIdempotent ==
  (bf.pc = "done" /\ bf.twice) => (bf.ret = 0 /\ bf.made = 0)

\* C8: generateMissingEmbeddings returns the number of vector records the
\* run created.
C8_CountIsRecordsCreated ==
  bf.pc = "done" => bf.ret = bf.made

\* the search that has returned, and the vector records of the tree
Searched == sr.pc = "done" /\ sr.op = "search" /\ sr.threw = ""
Stored == {files[p] : p \in EmbeddingFiles}
SameLetter(x, y) ==
  x = y \/ \E a \in 1..Len(UpperCase) : {x, y} = {UpperCase[a], LowerCase[a]}
ContainsIgnoreCase(str, part) ==
  \E at \in 0..(Len(str) - Len(part)) :
    \A n \in 1..Len(part) : SameLetter(str[at + n], part[n])
HasSection(r, o) ==
  (o.sections.set /\ Len(o.sections.v) > 0) =>
    \E a \in 1..Len(o.sections.v), b \in 1..Len(r.sections) :
      ContainsIgnoreCase(r.sections[b], o.sections.v[a])
WithinRange(r, o) ==
  o.dateRange.set =>
    /\ o.dateRange.v.start.set => r.timestamp >= o.dateRange.v.start.v
    /\ o.dateRange.v.end.set => r.timestamp <= o.dateRange.v.end.v
ScoreOf(e) == CosineSimilarity(Embed(sr.query), e.embedding)
Returns(e) == \E n \in 1..Len(sr.results) : sr.results[n].path = e.path

\* C9 as claimed: every result of search has the project tag of the project
\* filter, a section that contains a section filter whatever the case, and
\* a timestamp within the inclusive date range; a project filter that no
\* record matches gives no result.
C9_ResultsSatisfyFilters ==
  Searched =>
    /\ \A n \in 1..Len(sr.results) :
         /\ sr.options.project.set => sr.results[n].project = sr.options.project.v
         /\ HasSection(sr.results[n], sr.options)
         /\ WithinRange(sr.results[n], sr.options)
    /\ (sr.options.project.set /\ \A e \in Stored : e.project # sr.options.project.v)
         => sr.results = << >>
\* C9 as amended: the same, for a project filter that is not the empty
\* string (an empty project filter filters nothing); and a record whose
\* timestamp is the start or the end of the range is not held back by it.
C9_ResultsSatisfyNonEmptyFilters ==
  Searched =>
    LET o == sr.options
        named == o.project.set /\ o.project.v # ""
    IN /\ \A n \in 1..Len(sr.results) :
            /\ named => sr.results[n].project = o.project.v
            /\ HasSection(sr.results[n], o)
            /\ WithinRange(sr.results[n], o)
            /\ \E e \in Stored : sr.results[n] = SearchResult(e, ScoreOf(e))
       /\ (named /\ \A e \in Stored : e.project # o.project.v) => sr.results = << >>
       /\ \A e \in Stored :
            ( /\ o.dateRange.set
              /\ \/ o.dateRange.v.start.set /\ e.timestamp = o.dateRange.v.start.v
                 \/ o.dateRange.v.end.set /\ e.timestamp = o.dateRange.v.end.v
              /\ WithinRange(e, o) /\ HasSection(e, o)
              /\ named => e.project = o.project.v
              /\ ScoreOf(e) >= MinScoreOf(o)
              /\ Len(sr.results) < LimitOf(o) )
              => Returns(e)
C9_Witness ==
  /\ Searched
  /\ sr.options.project.set /\ sr.options.project.v # ""
  /\ sr.options.sections.set /\ Len(sr.options.sections.v) > 0
  /\ sr.options.dateRange.set
  /\ sr.options.dateRange.v.start.set /\ sr.options.dateRange.v.end.set
  /\ Len(sr.results) > 0
  /\ \E e \in Stored : ~Returns(e)

\* C10: the results of search are the records that pass the filters and
\* score at least minScore (0.1 when not given), none twice, in an order in
\* which the score never goes up, cut to limit (10 when not given): every
\* record left out by the cut scores no more than any record returned.
C10_RankedAboveThresholdWithinLimit ==
  Searched =>
    LET o == sr.options
        rs == sr.results
        limit == IF o.limit.set THEN o.limit.v ELSE DefaultLimit
        minScore == IF o.minScore.set THEN o.minScore.v ELSE DefaultMinScore
        qualifying == {e \in Stored :
                         /\ (o.project.set /\ o.project.v # "") => e.project = o.project.v
                         /\ HasSection(e, o) /\ WithinRange(e, o)
                         /\ ScoreOf(e) >= minScore}
    IN /\ Len(rs) = IF limit < Cardinality(qualifying) THEN limit ELSE Cardinality(qualifying)
       /\ \A n \in 1..Len(rs) :
            /\ rs[n].score >= minScore
            /\ \E e \in qualifying : rs[n].path = e.path /\ rs[n].score = ScoreOf(e)
       /\ \A n, m \in 1..Len(rs) : n # m => rs[n].path # rs[m].path
       /\ \A n \in 1..(Len(rs) - 1) : rs[n].score >= rs[n + 1].score
       /\ \A e \in qualifying : ~Returns(e) => \A n \in 1..Len(rs) : rs[n].score >= ScoreOf(e)
C10_Witness ==
  /\ Searched
  /\ sr.options.limit.set /\ Len(sr.results) = sr.options.limit.v
  /\ Len(sr.results) >= 2
  /\ sr.results[1].score > sr.results[2].score
  /\ \E e \in Stored : ~Returns(e) /\ ScoreOf(e) >= MinScoreOf(sr.options)
  /\ \E e \in Stored : ScoreOf(e) < MinScoreOf(sr.options)

\* the listRecent that has returned
Listed == sr.pc = "done" /\ sr.op = "listRecent" /\ sr.threw = ""
PassesListFilters(e, o) ==
  /\ (o.project.set /\ o.project.v # "") => e.project = o.project.v
  /\ WithinRange(e, o)

\* C11: the results of listRecent are the records that pass its project and
\* date-range filters, none twice, in an order in which the timestamp never
\* goes up, cut to limit (10 when not given): every record left out by the
\* cut is no newer than any record returned; and every result has score 1.
C11_RecentFirstWithinLimit ==
  Listed =>
    LET o == sr.options
        rs == sr.results
        limit == IF o.limit.set THEN o.limit.v ELSE DefaultLimit
        passing == {e \in Stored : PassesListFilters(e, o)}
    IN /\ Len(rs) = IF limit < Cardinality(passing) THEN limit ELSE Cardinality(passing)
       /\ \A n \in 1..Len(rs) :
            /\ rs[n].score = 1
            /\ \E e \in passing :
                 /\ rs[n].path = e.path /\ rs[n].timestamp = e.timestamp
                 /\ rs[n].text = e.text /\ rs[n].sections = e.sections
                 /\ rs[n].project = e.project
       /\ \A n, m \in 1..Len(rs) : n # m => rs[n].path # rs[m].path
       /\ \A n \in 1..(Len(rs) - 1) : rs[n].timestamp >= rs[n + 1].timestamp
       /\ \A e \in passing :
            ~Returns(e) => \A n \in 1..Len(rs) : rs[n].timestamp >= e.timestamp
C11_Witness ==
  /\ Listed
  /\ sr.options.limit.set /\ Len(sr.results) = sr.options.limit.v
  /\ Len(sr.results) >= 2
  /\ sr.results[1].timestamp > sr.results[2].timestamp
  /\ \E e \in Stored : PassesListFilters(e, sr.options) /\ ~Returns(e)
  /\ \E e \in Stored : ~PassesListFilters(e, sr.options)

\* C12: listRecent filters as search does: with a section filter it returns
\* no record without a section that contains one of the filter's names.
C12_ListRecentFiltersSections ==
  Listed => \A n \in 1..Len(sr.results) : HasSection(sr.results[n], sr.options)

\* the scan that has ended, the record files that do not load and the
\* records of the files that hold one
Scanned ==
  sr.pc = "done" /\ sr.op \in {"search", "listRecent"} /\ sr.threw # "generateEmbedding"
NotLoading == {q \in EmbeddingFiles : files[q] \in {InvalidJson, Unreadable}}
ValidRecords == {files[q] : q \in {x \in EmbeddingFiles : "path" \in DOMAIN files[x]}}
Qualifies(e) ==
  IF sr.op = "search"
    THEN /\ (sr.options.project.set /\ sr.options.project.v # "")
              => e.project = sr.options.project.v
         /\ HasSection(e, sr.options) /\ WithinRange(e, sr.options)
         /\ ScoreOf(e) >= MinScoreOf(sr.options)
    ELSE PassesListFilters(e, sr.options)
\* the results are what the valid records give: each result is of a valid
\* record that qualifies, and as many are returned as qualify, up to the limit
FromValidRecords ==
  LET qualifying == {e \in ValidRecords : Qualifies(e)}
      limit == LimitOf(sr.options)
  IN /\ Len(sr.results) = IF limit < Cardinality(qualifying) THEN limit
                           ELSE Cardinality(qualifying)
     /\ \A n \in 1..Len(sr.results) :
          \E e \in qualifying : sr.results[n].path = e.path /\ sr.results[n].text = e.text
     /\ \A n, m \in 1..Len(sr.results) : n # m => sr.results[n].path # sr.results[m].path

\* C13: when record files are unreadable or hold text that is no JSON (and
\* every other record file holds a record, every item of the entries path
\* is a day directory), search and listRecent throw nothing from the scan,
\* return the results of the valid records, and return a warning exactly
\* when at least one record file did not load.
C13_CorruptRecordsAreSkipped ==
  (Scanned /\ dirs \cap {BrokenLink, NoAccess} = {}
           /\ \A q \in EmbeddingFiles : files[q] # JsonNull) =>
    /\ sr.threw = ""
    /\ FromValidRecords
    /\ sr.warning <=> NotLoading # {}
C13_Witness ==
  /\ Scanned /\ sr.threw = ""
  /\ NotLoading # {} /\ sr.warning
  /\ Len(sr.results) >= 2

\* C14: no failure of a single item hides the results of the valid records
\* or aborts the call: with a record file that holds null, or an item of
\* the entries path that stat fails on, beside valid records, search and
\* listRecent still throw nothing and return the results of the valid records.
C14_ItemFailuresHideNothing ==
  (Scanned /\ ValidRecords # {}) => (sr.threw = "" /\ FromValidRecords)

\* the detectProjectName call that has returned
Detected == dp.pc = "done"
SpecialPath(q) == q \in {<<"home">>, << >>, <<"tmp">>}
HasUnsafeCharacter(q) == \E i \in 1..Len(q) : q[i] \in {"a;b"}
NoRootObtained == ~dp.spawned \/ dp.git.status # 0
LastSegment(q) == IF q = << >> THEN "" ELSE q[Len(q)]

\* C15 as claimed: detectProjectName returns "general" whenever it does not
\* obtain a repository root.
C15_GeneralWithoutRoot ==
  (Detected /\ NoRootObtained) => dp.ret = "general"
\* C15 as amended: detectProjectName returns "general" for the home
\* directory, "/" and "/tmp"; for any other path for which it does not
\* obtain a repository root (the path is not inside a repository, is
\* rejected by the allow-list, or detection fails) it returns the last
\* segment of the path, and "general" when that segment is empty.
C15_LastSegmentWithoutRoot ==
  (Detected /\ NoRootObtained) =>
    dp.ret = IF SpecialPath(dp.dirPath) \/ LastSegment(dp.dirPath) = "" THEN "general"
             ELSE LastSegment(dp.dirPath)
C15_Witness ==
  /\ Detected /\ dp.spawned /\ dp.git.status \notin {0, 128}
  /\ dp.ret # "general"

\* C16: detectProjectName never returns the empty string, so every entry
\* file and vector record carries a project tag that is not empty.
C16_ProjectTagNotEmpty ==
  Detected => dp.ret # ""

\* C17: for a path with a character outside the allow-list no subprocess
\* is started.
C17_NoSubprocessForUnsafePath ==
  (dp.pc # "idle" /\ HasUnsafeCharacter(dp.dirPath)) => (~dp.spawned /\ dp.pc = "done")
C17_Witness ==
  Detected /\ HasUnsafeCharacter(dp.dirPath) /\ dp.ret = "a;b"

\* the lines of body hold the heading of the section and, after the blank
\* line, its text, from line at on
SectionAt(body, at, name, text) ==
  /\ at + 1 + Len(text) <= Len(body)
  /\ body[at] = [k |-> "heading", name |-> name]
  /\ SubSeq(body, at + 2, at + 1 + Len(text)) = text
NonEmptyText(s) == s # << >> /\ \E n \in 1..Len(s) : s[n].s # ""

\* C18: a process_thoughts call that supplies text for the user, project
\* and reflections sections and has returned has left an entry whose body
\* holds the headings User, Project and Reflections in that order, each
\* followed by the text supplied for it.
C18_EverySuppliedSectionStored ==
  \A i \in CallIds :
    ( /\ ReturnedOk(i) /\ calls[i].op = "process_thoughts"
      /\ NonEmptyText(calls[i].arg.user) /\ NonEmptyText(calls[i].arg.project)
      /\ NonEmptyText(calls[i].arg.reflections) ) =>
      /\ MdOf(calls[i]) \in DOMAIN files
      /\ LET body == files[MdOf(calls[i])]
         IN \E a, b, c \in 1..Len(body) :
              /\ a < b /\ b < c
              /\ SectionAt(body, a, <<"U", "s", "e", "r">>, calls[i].arg.user)
              /\ SectionAt(body, b, <<"P", "r", "o", "j", "e", "c", "t">>, calls[i].arg.project)
              /\ SectionAt(body, c, <<"R", "e", "f", "l", "e", "c", "t", "i", "o", "n", "s">>,
                           calls[i].arg.reflections)

\* C19: a search_journal or list_recent_entries call whose search or
\* listRecent returns at least one record answers with those records
\* listed in the order returned, not with "no entries found".
C19_ToolListsWhatWasFound ==
  ( /\ sr.pc = "done" /\ sr.op \in {"search_journal", "list_recent_entries"}
    /\ sr.threw = "" /\ Len(sr.results) > 0 ) =>
    /\ sr.response.found
    /\ Len(sr.response.entries) = Len(sr.results)
    /\ \A n \in 1..Len(sr.results) :
         /\ sr.response.entries[n].path = sr.results[n].path
         /\ sr.response.entries[n].score = sr.results[n].score
         /\ sr.response.entries[n].project = sr.results[n].project

\* C20: readEntry returns the content of the file at the path when it is
\* there (or throws the I/O error of reading it), returns null and throws
\* nothing when it is not, and changes neither a file nor a directory.
C20_ReadEntryNullWhenAbsent ==
  [][(sr.pc = "idle" /\ sr'.pc = "done" /\ sr'.op = "readEntry") =>
       /\ files' = files /\ dirs' = dirs
       /\ IF sr'.path \in DOMAIN files
            THEN \/ sr'.threw = "" /\ ~sr'.ret.isNull /\ sr'.ret.content = files[sr'.path]
                 \/ sr'.threw \notin {"", "ENOENT"}
            ELSE sr'.threw = "" /\ sr'.ret.isNull]_vars
C20_Witness ==
  /\ sr.pc = "done" /\ sr.op = "readEntry"
  /\ sr.path \notin DOMAIN files /\ sr.ret.isNull
  /\ files # << >>

\* a thoughts object (or a missing arguments object) without a string section
NoStringSection(thoughts) ==
  \A key \in {"user", "project", "reflections"} : Prop(thoughts, key) = Undefined

\* C21: a process_thoughts call that supplies no section as a string, and a
\* search_journal call without a string query, end in the very step that
\* takes them up, with the error that says what is missing, and with the
\* directories and files left as they were: nothing is created, written,
\* detected or embedded for them.
C21_RejectedBeforeAnyIO ==
  [][/\ (/\ calls[1].pc = "idle" /\ calls'[1].pc # "idle"
         /\ calls'[1].op = "process_thoughts"
         /\ NoStringSection(calls'[1].arg))
        => /\ calls'[1].pc = "done"
           /\ calls'[1].ret = Thrown("noSection", -1)
           /\ files' = files /\ dirs' = dirs
     /\ (/\ sr.pc = "idle" /\ sr'.pc = "done"
         /\ sr'.op = "search_journal"
         /\ sr'.query = << >>)
        => /\ sr'.threw = "query is required and must be a string"
           /\ files' = files /\ dirs' = dirs]_vars


\* C22: items of the entries path that are no YYYY-MM-DD directory (files,
\* other directories, dangling links) are ignored: with such an item beside
\* the day directories, and every record file holding a record, search and
\* listRecent throw nothing, warn of nothing and return the results of the
\* records, as they do without the item.
C22_OtherNamesAreIgnored ==
  (/\ Scanned /\ NoAccess \notin dirs
   /\ \A q \in EmbeddingFiles : "path" \in DOMAIN files[q])
    => (sr.threw = "" /\ ~sr.warning /\ FromValidRecords)


\* C23: on a store without an entries directory, listRecent and search (when
\* the query is embedded) return no result and no warning and throw nothing,
\* generateMissingEmbeddings returns 0, and the directory is still missing
\* afterwards.
C23_FirstUseIsEmpty ==
  /\ dirs = {} /\ DOMAIN files = {}
  /\ (sr.pc = "done" /\ sr.threw # "generateEmbedding")
       => (sr.threw = "" /\ sr.results = << >> /\ ~sr.warning)
  /\ bf.pc = "done" => bf.ret = 0
C23_Witness ==
  /\ sr.pc = "done" /\ sr.op = "search" /\ sr.threw = "" /\ sr.results = << >>
  /\ bf.pc = "done" /\ bf.ret = 0 /\ dirs = {}


\* the entry file beside a vector-record file
EntryOf(q) == [day |-> q.day, name |-> q.name, ext |-> "md"]
\* the epoch milliseconds of the timestamp line of an entry's metadata
MetadataInstant(content) == content[4].ms

\* C24: the timestamp of every vector record is the epoch-millisecond
\* instant of the timestamp line in the metadata of its entry, for a record
\* made by a write call and for one made by generateMissingEmbeddings.
C24_RecordTimestampIsMetadataInstant ==
  \A q \in EmbeddingFiles :
    EntryOf(q) \in DOMAIN files
      => files[q].timestamp = MetadataInstant(files[EntryOf(q)])


\* C25: in every state of every run of write calls and backfills, failed
\* steps included, each vector-record file lies beside an entry file of the
\* same base name in the same day directory, and its path field is the path
\* of that entry.
C25_NoOrphanRecord ==
  \A q \in EmbeddingFiles :
    EntryOf(q) \in DOMAIN files /\ files[q].path = EntryOf(q)
C25_Witness ==
  /\ bf.made > 0
  /\ \E i \in CallIds : calls[i].saved
  /\ \E i \in CallIds : ReturnedOk(i) /\ HasText(calls[i]) /\ ~calls[i].saved
  /\ Cardinality(EmbeddingFiles) >= 2


\* the project line of the metadata block of an entry, if it has one
ProjectLines(content) ==
  LET body == StripFrontmatter(content)
      block == SubSeq(content, 1, Len(content) - Len(body))
  IN {n \in 1..Len(block) : block[n].k = "project"}

\* C26: a step of generateMissingEmbeddings leaves every file of the store
\* as it is, entry files and vector records alike; what it adds is a vector
\* record for an entry that had none, and the project of that record is the
\* one in the project line of the entry's metadata, or the detected one
\* when the metadata has no project line.
C26_BackfillOnlyAddsRecords ==
  [][bf' # bf =>
       /\ \A p \in DOMAIN files : p \in DOMAIN files' /\ files'[p] = files[p]
       /\ \A q \in DOMAIN files' \ DOMAIN files :
            /\ q.ext = "embedding" /\ EntryOf(q) \in DOMAIN files
            /\ LET content == files[EntryOf(q)]
                   at == ProjectLines(content)
               IN files'[q].project =
                    IF at = {} THEN DetectProjectName(cwd)
                    ELSE content[CHOOSE n \in at : TRUE].name]_vars


\* the entries that have no vector record
Lacking == {p \in MdFiles : EmbeddingPath(p) \notin DOMAIN files}

\* C29: a run of generateMissingEmbeddings attempts every entry without a
\* vector record, whatever fails on the way: when the run has ended, the
\* entries it attempted (count) are the entries that lacked a record, those
\* it made a record for and those that still lack one.
C29_EveryLackingEntryAttempted ==
  bf.pc = "done" => bf.count = bf.made + Cardinality(Lacking)


\* a tool call has been taken up
ToolActive == calls[1].pc # "idle" \/ sr.pc # "idle"

\* C30: run connects the transport, and does so only when the startup
\* generateMissingEmbeddings has ended; no tool call is taken up before the
\* connection, so none runs beside the startup backfill.
C30_ConnectsAfterBackfill ==
  /\ [](bf.serving => bf.pc = "done")
  /\ [](ToolActive => bf.serving)
  /\ <>bf.serving
C30_Witness ==
  /\ bf.serving /\ bf.count > 0
  /\ calls[1].pc = "done" /\ sr.pc = "done"


\* C27: a search or listRecent that runs beside a write call, whatever the
\* order of their steps, throws nothing (once the query is embedded) and
\* gives no warning; every record that was in its file when the scan began
\* is among the records loaded; and every record loaded is one that is in
\* its file, so the entry being written is found only once its record exists.
C27_ScanToleratesWrite ==
  (sr.pc = "done" /\ sr.threw # "generateEmbedding") =>
    /\ sr.threw = "" /\ ~sr.warning
    /\ \A q \in sr.before : \E n \in 1..Len(sr.loaded) : sr.loaded[n].path = EntryOf(q)
    /\ \A n \in 1..Len(sr.loaded) : EmbeddingPath(sr.loaded[n].path) \in EmbeddingFiles
\* the scan began before the record of the write was saved and ended after:
\* once without the new record, once with it
C27_Witness ==
  /\ sr.pc = "done" /\ sr.threw = "" /\ sr.before # {}
  /\ calls[1].saved
  /\ RecordOf(calls[1]) \notin sr.before
  /\ \E n \in 1..Len(sr.loaded) : sr.loaded[n].path = MdOf(calls[1])


\* the window the claim describes: among the starts at multiples of the step
\* whose window lies in the text, the first with the most distinct query words
ClaimedWords(query) ==
  LET pieces == SplitWhitespace(ToLowerCase(query))
  IN {pieces[n] : n \in 1..Len(pieces)} \ {<< >>}
ClaimedStarts(text) ==
  {i \in 0..Len(text) : i % ExcerptStep = 0 /\ i + ExcerptLength <= Len(text)}
ClaimedCount(text, query, i) ==
  Cardinality({w \in ClaimedWords(query) :
                 Includes(ToLowerCase(StringSlice(text, i, i + ExcerptLength)), w)})
ClaimedStart(text, query) ==
  IF ClaimedStarts(text) = {} THEN 0
  ELSE CHOOSE i \in ClaimedStarts(text) :
         /\ \A j \in ClaimedStarts(text) : ClaimedCount(text, query, j) <= ClaimedCount(text, query, i)
         /\ \A j \in ClaimedStarts(text) :
              ClaimedCount(text, query, j) = ClaimedCount(text, query, i) => i <= j
ClaimedExcerpt(text, query) ==
  LET i == ClaimedStart(text, query)
  IN (IF i > 0 THEN Ellipsis ELSE << >>)
       \o StringSlice(text, i, i + ExcerptLength)
       \o (IF i + ExcerptLength < Len(text) THEN Ellipsis ELSE << >>)

\* the window the code settles on: the pieces of the query count once for
\* every place they have in the query
PiecesCount(text, query, i) ==
  LET pieces == SplitWhitespace(ToLowerCase(query))
  IN Cardinality({n \in 1..Len(pieces) :
                    Includes(StringSlice(ToLowerCase(text), i, i + ExcerptLength), pieces[n])})
PiecesStart(text, query) ==
  IF ClaimedStarts(text) = {} THEN 0
  ELSE CHOOSE i \in ClaimedStarts(text) :
         /\ \A j \in ClaimedStarts(text) : PiecesCount(text, query, j) <= PiecesCount(text, query, i)
         /\ \A j \in ClaimedStarts(text) :
              PiecesCount(text, query, j) = PiecesCount(text, query, i) => i <= j
PiecesExcerpt(text, query) ==
  LET i == PiecesStart(text, query)
  IN (IF i > 0 THEN Ellipsis ELSE << >>)
       \o StringSlice(text, i, i + ExcerptLength)
       \o (IF i + ExcerptLength < Len(text) THEN Ellipsis ELSE << >>)

\* C28: for a query that is not empty generateExcerpt returns the window of
\* maxLength characters, among those starting at multiples of the step, with
\* the most distinct query words (the earliest on a tie), with '...' before
\* it exactly when it does not start the text and after it exactly when it
\* does not reach the end; for an empty query it returns the first maxLength
\* characters of the text.
C28_ExcerptIsBestWindow ==
  (sr.pc = "done" /\ sr.op = "generateExcerpt") =>
    sr.ret = IF sr.query = << >> THEN StringSlice(sr.text, 0, ExcerptLength)
             ELSE ClaimedExcerpt(sr.text, sr.query)


\* C28 as amended: the windows are scored by the pieces of the query counted
\* with their repetitions, and an empty or blank query gives the first
\* maxLength characters followed by '...' when the text is longer.
C28_ExcerptIsBestWindowByPieces ==
  (sr.pc = "done" /\ sr.op = "generateExcerpt") =>
    sr.ret = IF TrimmedIsEmpty(sr.query)
               THEN StringSlice(sr.text, 0, ExcerptLength)
                      \o (IF Len(sr.text) > ExcerptLength THEN Ellipsis ELSE << >>)
             ELSE PiecesExcerpt(sr.text, sr.query)
\* a query with a repeated word, for which the window with the most distinct
\* words is not the one returned
C28_Witness ==
  /\ sr.pc = "done" /\ sr.op = "generateExcerpt"
  /\ ~TrimmedIsEmpty(sr.query)
  /\ sr.ret = PiecesExcerpt(sr.text, sr.query)
  /\ sr.ret # ClaimedExcerpt(sr.text, sr.query)
  /\ Len(sr.ret) = ExcerptLength + Len(Ellipsis)


====
